---------------------------- MODULE Spec2Model ----------------------------
(***************************************************************************)
(* modrinthpy: the client library (modrinthpy/client.py) and the           *)
(* create-version command of its CLI (modrinthpy/cli.py).                  *)
(*                                                                         *)
(* The model follows one Python thread through three entry points:        *)
(*   - a call of cli._resolve_dependency              (SpecResolve),       *)
(*   - a call of ModrinthClient.create_version        (SpecCreate),        *)
(*   - a run of cli.main_create_version, which calls both (Spec).          *)
(* The remote API and the file system are the environment: what the        *)
(* server answers to each lookup and which paths open() can read are fixed *)
(* when a run starts; the answer to the upload POST is chosen when it is   *)
(* sent.                                                                   *)
(***************************************************************************)
EXTENDS Integers, Sequences, FiniteSets, TLC

VARIABLES
    args,          \* argparse namespace of the CLI run (NoArgs for a direct library call)
    remote,        \* what the server answers: [project, version: token -> response]
    openable,      \* the paths open() can read
    refcounting,   \* whether the runtime closes a file object when its last reference goes
    pc,            \* position of the thread
    caller,        \* "main" inside a CLI run, "none" for a direct library call
    project_id,    \* main_create_version.project_id / create_version's project_id
    dependencies,  \* main_create_version.dependencies
    depIdx,        \* position in the four dependency loops of main_create_version
    dep,           \* _resolve_dependency's parameter dep
    dep_type,      \* _resolve_dependency's parameter dep_type
    probe,         \* which try block of _resolve_dependency is running
    ret,           \* << >> until the entry point returns, then <<value>>
    deps,          \* create_version's parameter deps
    file_paths,    \* create_version's parameter file_paths
    data,          \* create_version's local data (<< >> until built)
    files,         \* create_version's local files: part name -> part
    fileIdx,       \* position of the loop "for f in file_paths"
    handles,       \* every file object open() has returned: [path, closed]
    wire,          \* every HTTP request sent so far, in order
    raised,        \* the exception that left the entry point ("" for none)
    exitCode       \* << >> while the process runs, <<status>> once it has exited

vars == <<args, remote, openable, refcounting, pc, caller, project_id,
          dependencies, depIdx, dep, dep_type, probe, ret, deps, file_paths,
          data, files, fileIdx, handles, wire, raised, exitCode>>

envVars  == <<args, remote, openable, refcounting, caller>>
mainVars == <<project_id, dependencies, depIdx>>
rdVars   == <<dep, dep_type, probe>>
cvVars   == <<deps, file_paths, data, files, fileIdx, handles>>

(***************************************************************************)
(* Bounds of the model.                                                    *)
(***************************************************************************)
MaxFiles == 2      \* longest file_paths list of a direct create_version call
MaxDeps == 2       \* longest deps list of a direct create_version call
MaxCliDeps == 2    \* most dependency flags of one CLI run
MaxCliFiles == 1   \* most --file-path flags of one CLI run

(***************************************************************************)
(* Values.                                                                 *)
(***************************************************************************)
Tokens == {"abc123", "lib-2.0.jar"}
Kinds == {"required", "optional", "incompatible", "embedded"}
ProjectIds == {"P7xK2mQa"}
VersionIds == {"V3nB9tLc"}
Paths == {"a.jar", "b.jar", "data"}
ChangelogPath == "CHANGELOG.md"
None == "<None>"

SeqsUpTo(S, n) == UNION {[1..k -> S] : k \in 0..n}

\* A response of the server: its status, whether its body parses as JSON,
\* and the 'id' of the JSON of a found entity. Status 0 stands for no
\* response at all (requests raises ConnectionError or Timeout). A found
\* entity's JSON has an 'id' (https://docs.modrinth.com/api/).
Found(id) == [status |-> 200, body |-> "json", id |-> id]
Failed(status) == [status |-> status, body |-> "json", id |-> ""]
NotJson(status) == [status |-> status, body |-> "text", id |-> ""]
LookupFailures ==
    {Failed(s) : s \in {0, 404, 401, 429, 500}} \cup {NotJson(200), NotJson(502)}
ProjectResponses == {Found(i) : i \in ProjectIds} \cup LookupFailures
VersionResponses == {Found(i) : i \in VersionIds} \cup LookupFailures
PostResponses ==
    {Found(i) : i \in VersionIds} \cup {Failed(s) : s \in {0, 400, 401, 500}}
        \cup {NotJson(502)}

(***************************************************************************)
(* client.py                                                               *)
(***************************************************************************)
\* ModrinthClient._get: the JSON of a 2xx response. raise_for_status raises
\* HTTPError for 4xx and 5xx; the handler logs response.json() and raises
\* the HTTPError again. response.json() raises JSONDecodeError on a body
\* that is no JSON, in the handler too. An error of the transport passes
\* through.
_get(response) ==
    IF response.status = 0
    THEN [exc |-> "ConnectionError", json |-> [id |-> ""]]
    ELSE IF response.body # "json"
    THEN [exc |-> "JSONDecodeError", json |-> [id |-> ""]]
    ELSE IF response.status >= 400
    THEN [exc |-> "HTTPError", json |-> [id |-> ""]]
    ELSE [exc |-> "", json |-> [id |-> response.id]]

\* ModrinthClient._post: as _get.
_post(response) ==
    IF response.status = 0
    THEN [exc |-> "ConnectionError", json |-> [id |-> ""]]
    ELSE IF response.body # "json"
    THEN [exc |-> "JSONDecodeError", json |-> [id |-> ""]]
    ELSE IF response.status >= 400
    THEN [exc |-> "HTTPError", json |-> [id |-> ""]]
    ELSE [exc |-> "", json |-> [id |-> response.id]]

get_project(id) == _get(remote.project[id])
get_version(id) == _get(remote.version[id])

Request(method, endpoint, token, status) ==
    [method |-> method, endpoint |-> endpoint, token |-> token, status |-> status]

\* Mutant: the 'dependencies' key is written whatever deps holds.
create_version_data_AlwaysDeps(pid, ds, fps) ==
    [project_id |-> pid, file_parts |-> fps, primary_file |-> fps[1]]
        @@ [dependencies |-> ds]

\* Mutant: the last path is taken for the primary file.
create_version_data_LastPrimary(pid, ds, fps) ==
    LET base == [project_id |-> pid, file_parts |-> fps, primary_file |-> fps[Len(fps)]]
    IN  IF ds # << >> THEN base @@ [dependencies |-> ds] ELSE base

\* The JSON body of create_version: the twelve fixed keys, of which the
\* model keeps the three the code computes from its parameters rather than
\* copies from a scalar, and 'dependencies' only "if deps".
create_version_data(pid, ds, fps) ==
    LET base == [project_id |-> pid, file_parts |-> fps, primary_file |-> fps[1]]
    IN  IF ds # << >> THEN base @@ [dependencies |-> ds] ELSE base

\* files[name] = part
Put(d, name, part) ==
    [n \in DOMAIN d \cup {name} |-> IF n = name THEN part ELSE d[n]]

\* File objects that lose their last reference: a reference-counting
\* runtime closes them at once, another runtime may never do so.
Release(h, dropped) ==
    IF refcounting
    THEN [i \in DOMAIN h |-> IF i \in dropped THEN [h[i] EXCEPT !.closed = TRUE] ELSE h[i]]
    ELSE h

FileHandlesOf(d) == {d[n].handle : n \in {m \in DOMAIN d : d[m].kind = "file"}}

(***************************************************************************)
(* How an entry point ends.                                                *)
(***************************************************************************)
\* An exception nothing catches: it leaves a direct call to its caller; in a
\* CLI run it ends the process with status 1.
Raise(exc) ==
    /\ raised' = exc
    /\ pc' = IF caller = "main" THEN "exited" ELSE "raised"
    /\ exitCode' = IF caller = "main" THEN <<1>> ELSE exitCode

\* exit(status)
Exit(status) ==
    /\ pc' = "exited"
    /\ exitCode' = <<status>>
    /\ raised' = raised

(***************************************************************************)
(* cli.py                                                                  *)
(***************************************************************************)
Tag(tokens, kind) == [i \in 1..Len(tokens) |-> [token |-> tokens[i], kind |-> kind]]

\* The order in which main_create_version resolves the dependency flags.
AllDeps(a) ==
    Tag(a.embedded_dep, "embedded") \o Tag(a.incompatible_dep, "incompatible")
        \o Tag(a.optional_dep, "optional") \o Tag(a.required_dep, "required")

_resolve_project_id(project) ==
    IF get_project(project).exc = "" THEN get_project(project).json.id ELSE None

\* Mutant: the version lookup is tried before the project lookup.
ProbeOrder_VersionFirst == <<"version", "project">>

\* Mutant: the version lookup is left out.
ProbeOrder_ProjectOnly == <<"project">>

\* The try blocks of _resolve_dependency, in the order they run.
ProbeOrder == <<"project", "version">>

ProbeResponse(kind, token) ==
    IF kind = "project" THEN remote.project[token] ELSE remote.version[token]

ProbeEndpoint(kind) == IF kind = "project" THEN "/v2/project/" ELSE "/v2/version/"

\* The dictionary a successful try block returns.
FoundRef(kind, id, dt) ==
    IF kind = "project"
    THEN [project_id |-> id, dependency_type |-> dt]
    ELSE [version_id |-> id, dependency_type |-> dt]

FileNameRef(token, dt) == [file_name |-> token, dependency_type |-> dt]

\* Mutant: "except requests.exceptions.HTTPError:".
BareExcept_HTTPErrorOnly(exc) == exc = "HTTPError"

\* "except:" catches whatever the try block raised.
BareExcept(exc) == TRUE

\* With k dependency flags resolved, main_create_version calls
\* _resolve_dependency for the next one, or leaves the four loops.
AfterDependency(k) ==
    IF k < Len(AllDeps(args))
    THEN /\ depIdx' = k + 1
         /\ dep' = AllDeps(args)[k + 1].token
         /\ dep_type' = AllDeps(args)[k + 1].kind
         /\ probe' = 1
         /\ pc' = "rd_probe"
    ELSE /\ depIdx' = k
         /\ UNCHANGED rdVars
         /\ pc' = "prepare"

\* Mutant: no exit(1) when the project is not found.
MainResolveProject_NoExit ==
    /\ pc = "main"
    /\ wire' = Append(wire, Request("GET", "/v2/project/", args.project,
                                    remote.project[args.project].status))
    /\ project_id' = IF get_project(args.project).exc = ""
                     THEN get_project(args.project).json.id ELSE None
    /\ AfterDependency(0)
    /\ UNCHANGED <<raised, exitCode>>
    /\ UNCHANGED <<envVars, dependencies, ret, cvVars>>

\* main_create_version up to the dependency loops: look the target project
\* up, exit(1) "if not project_id".
MainResolveProject ==
    /\ pc = "main"
    /\ wire' = Append(wire, Request("GET", "/v2/project/", args.project,
                                    remote.project[args.project].status))
    /\ project_id' = _resolve_project_id(args.project)
    /\ IF project_id' \in {None, ""}
       THEN Exit(1) /\ UNCHANGED <<depIdx, rdVars>>
       ELSE AfterDependency(0) /\ UNCHANGED <<raised, exitCode>>
    /\ UNCHANGED <<envVars, dependencies, ret, cvVars>>

\* "return {...}" of _resolve_dependency: to main_create_version, which
\* appends the result and goes on, or to the direct caller.
ResolveReturn(result) ==
    IF caller = "main"
    THEN /\ dependencies' = Append(dependencies, result)
         /\ AfterDependency(depIdx)
         /\ ret' = ret
    ELSE /\ ret' = <<result>>
         /\ pc' = "returned"
         /\ UNCHANGED <<dependencies, depIdx, rdVars>>

\* One try block of _resolve_dependency: the lookup, the return on success,
\* and on failure the next try block or the final "return {'file_name': ...}".
ResolveProbe ==
    /\ pc = "rd_probe"
    /\ LET kind == ProbeOrder[probe]
           r == _get(ProbeResponse(kind, dep))
       IN  /\ wire' = Append(wire, Request("GET", ProbeEndpoint(kind), dep,
                                           ProbeResponse(kind, dep).status))
           /\ IF r.exc = ""
              THEN ResolveReturn(FoundRef(kind, r.json.id, dep_type))
                   /\ UNCHANGED <<raised, exitCode>>
              ELSE IF ~BareExcept(r.exc)
              THEN Raise(r.exc) /\ UNCHANGED <<dependencies, depIdx, rdVars, ret>>
              ELSE IF probe < Len(ProbeOrder)
              THEN /\ probe' = probe + 1
                   /\ pc' = "rd_probe"
                   /\ UNCHANGED <<dependencies, depIdx, dep, dep_type, ret,
                                  raised, exitCode>>
              ELSE ResolveReturn(FileNameRef(dep, dep_type))
                   /\ UNCHANGED <<raised, exitCode>>
    /\ UNCHANGED <<envVars, project_id, cvVars>>

\* Mutant: --dryrun is not looked at.
MainPrepareUpload_IgnoreDryrun ==
    /\ pc = "prepare"
    /\ IF args.changelog_path \notin openable
       THEN /\ Raise("OSError")
            /\ UNCHANGED <<deps, file_paths, handles>>
       ELSE /\ handles' = Append(handles, [path |-> args.changelog_path, closed |-> TRUE])
            /\ deps' = dependencies
            /\ file_paths' = args.file_path
            /\ pc' = "cv_build"
            /\ UNCHANGED <<raised, exitCode>>
    /\ UNCHANGED <<envVars, mainVars, rdVars, ret, data, files, fileIdx, wire>>

\* main_create_version after the dependency loops: read the changelog
\* ("with open(...)"), exit(0) on --dryrun, otherwise call create_version.
MainPrepareUpload ==
    /\ pc = "prepare"
    /\ IF args.changelog_path \notin openable
       THEN /\ Raise("OSError")
            /\ UNCHANGED <<deps, file_paths, handles>>
       ELSE /\ handles' = Append(handles, [path |-> args.changelog_path, closed |-> TRUE])
            /\ IF args.dryrun
               THEN Exit(0) /\ UNCHANGED <<deps, file_paths>>
               ELSE /\ deps' = dependencies
                    /\ file_paths' = args.file_path
                    /\ pc' = "cv_build"
                    /\ UNCHANGED <<raised, exitCode>>
    /\ UNCHANGED <<envVars, mainVars, rdVars, ret, data, files, fileIdx, wire>>

(***************************************************************************)
(* client.py: create_version                                               *)
(***************************************************************************)
\* The body up to the loop: data (file_paths[0] raises IndexError on an
\* empty list) and files = {'data': (None, json.dumps(data), ...)}.
CreateVersionBuild ==
    /\ pc = "cv_build"
    /\ IF file_paths = << >>
       THEN Raise("IndexError") /\ UNCHANGED <<data, files, fileIdx>>
       ELSE /\ data' = create_version_data(project_id, deps, file_paths)
            /\ files' = [n \in {"data"} |-> [kind |-> "json", handle |-> 0]]
            /\ fileIdx' = 1
            /\ pc' = "cv_open"
            /\ UNCHANGED <<raised, exitCode>>
    /\ UNCHANGED <<envVars, mainVars, rdVars, ret, deps, file_paths, handles, wire>>

\* Mutant: a path that cannot be opened is skipped.
CreateVersionOpen_SkipMissing ==
    /\ pc = "cv_open"
    /\ LET f == file_paths[fileIdx]
           h == Len(handles) + 1
           dropped == IF f \in DOMAIN files /\ files[f].kind = "file"
                      THEN {files[f].handle} ELSE {}
       IN  /\ IF f \notin openable
              THEN UNCHANGED <<files, handles>>
              ELSE /\ handles' = Release(Append(handles, [path |-> f, closed |-> FALSE]),
                                         dropped)
                   /\ files' = Put(files, f, [kind |-> "file", handle |-> h])
           /\ fileIdx' = fileIdx + 1
           /\ pc' = IF fileIdx = Len(file_paths) THEN "cv_post" ELSE "cv_open"
           /\ UNCHANGED <<raised, exitCode>>
    /\ UNCHANGED <<envVars, mainVars, rdVars, ret, deps, file_paths, data, wire>>

\* One turn of "for f in file_paths: files[f] = open(f, 'rb')". What
\* files[f] held before loses its reference.
CreateVersionOpen ==
    /\ pc = "cv_open"
    /\ LET f == file_paths[fileIdx]
           h == Len(handles) + 1
           dropped == IF f \in DOMAIN files /\ files[f].kind = "file"
                      THEN {files[f].handle} ELSE {}
       IN  IF f \notin openable
           THEN Raise("OSError") /\ UNCHANGED <<files, fileIdx, handles>>
           ELSE /\ handles' = Release(Append(handles, [path |-> f, closed |-> FALSE]),
                                      dropped)
                /\ files' = Put(files, f, [kind |-> "file", handle |-> h])
                /\ fileIdx' = fileIdx + 1
                /\ pc' = IF fileIdx = Len(file_paths) THEN "cv_post" ELSE "cv_open"
                /\ UNCHANGED <<raised, exitCode>>
    /\ UNCHANGED <<envVars, mainVars, rdVars, ret, deps, file_paths, data, wire>>

\* "response = self._post(endpoint, files=files); return response". On the
\* return the frame goes, and with it the references files holds; an
\* exception keeps the frame alive in its traceback. main_create_version
\* logs the result and the process ends.
CreateVersionPost ==
    /\ pc = "cv_post"
    /\ \E response \in PostResponses :
         LET r == _post(response)
         IN  /\ wire' = Append(wire, Request("POST", "/v2/version", "", response.status))
             /\ IF r.exc = ""
                THEN /\ handles' = Release(handles, FileHandlesOf(files))
                     /\ IF caller = "main"
                        THEN Exit(0) /\ ret' = ret
                        ELSE /\ ret' = <<r.json>>
                             /\ pc' = "returned"
                             /\ UNCHANGED <<raised, exitCode>>
                ELSE Raise(r.exc) /\ UNCHANGED <<ret, handles>>
    /\ UNCHANGED <<envVars, mainVars, rdVars, deps, file_paths, data, files, fileIdx>>

(***************************************************************************)
(* Specifications.                                                         *)
(***************************************************************************)
NoArgs ==
    [project |-> "", dryrun |-> FALSE, changelog_path |-> ChangelogPath,
     embedded_dep |-> << >>, incompatible_dep |-> << >>, optional_dep |-> << >>,
     required_dep |-> << >>, file_path |-> << >>]

EmptyRemote ==
    [project |-> [t \in Tokens |-> Failed(404)], version |-> [t \in Tokens |-> Failed(404)]]

\* What holds before any entry point has run.
Fresh ==
    /\ dependencies = << >> /\ depIdx = 0
    /\ ret = << >> /\ data = << >> /\ files = << >> /\ fileIdx = 0
    /\ handles = << >> /\ wire = << >> /\ raised = "" /\ exitCode = << >>

\* A direct call _resolve_dependency(client, dep, dep_type).
InitResolve ==
    /\ args = NoArgs /\ caller = "none" /\ openable = {} /\ refcounting = TRUE
    /\ remote \in [project : [Tokens -> ProjectResponses],
                   version : [Tokens -> VersionResponses]]
    /\ dep \in Tokens /\ dep_type \in Kinds /\ probe = 1
    /\ deps = << >> /\ file_paths = << >>
    /\ pc = "rd_probe" /\ project_id = None
    /\ Fresh

NextResolve == ResolveProbe

SpecResolve == InitResolve /\ [][NextResolve]_vars

\* A direct call client.create_version(..., deps, ..., project_id, file_paths).
DepRefs ==
    {FoundRef("project", "P7xK2mQa", "required"),
     FoundRef("version", "V3nB9tLc", "optional"),
     FileNameRef("lib-2.0.jar", "embedded")}

InitCreate ==
    /\ args = NoArgs /\ caller = "none" /\ remote = EmptyRemote
    /\ openable \in SUBSET Paths /\ refcounting \in BOOLEAN
    /\ dep = "" /\ dep_type = "" /\ probe = 1
    /\ deps \in SeqsUpTo(DepRefs, MaxDeps)
    /\ file_paths \in SeqsUpTo(Paths, MaxFiles)
    /\ pc = "cv_build" /\ project_id \in ProjectIds
    /\ Fresh

NextCreate == CreateVersionBuild \/ CreateVersionOpen \/ CreateVersionPost

SpecCreate == InitCreate /\ [][NextCreate]_vars

\* A run of "modrinthpy create-version ...": argparse requires --project and
\* at least one --file-path; each dependency flag may repeat or be absent.
CliTokens == {"lib-2.0.jar"}

CliArgs ==
    {a \in [project : {"abc123"}, dryrun : BOOLEAN, changelog_path : {ChangelogPath},
            embedded_dep : SeqsUpTo(CliTokens, MaxCliDeps),
            incompatible_dep : SeqsUpTo(CliTokens, MaxCliDeps),
            optional_dep : SeqsUpTo(CliTokens, MaxCliDeps),
            required_dep : SeqsUpTo(CliTokens, MaxCliDeps),
            file_path : SeqsUpTo(Paths, MaxCliFiles) \ {<< >>}] :
        Len(AllDeps(a)) <= MaxCliDeps}

CliRemotes ==
    {[project |-> [t \in Tokens |-> IF t = "abc123" THEN target ELSE p],
      version |-> [t \in Tokens |-> IF t = "abc123" THEN Failed(404) ELSE v]] :
        target \in {Found("P7xK2mQa"), Failed(404), Failed(0)},
        p \in {Found("P7xK2mQa"), Failed(404)},
        v \in {Found("V3nB9tLc"), Failed(429)}}

InitMain ==
    /\ args \in CliArgs /\ caller = "main" /\ remote \in CliRemotes
    /\ openable \in {o \in SUBSET (Paths \cup {ChangelogPath}) : {"a.jar", "data"} \subseteq o}
    /\ refcounting = TRUE
    /\ dep = "" /\ dep_type = "" /\ probe = 1
    /\ deps = << >> /\ file_paths = << >>
    /\ pc = "main" /\ project_id = None
    /\ Fresh

Init == InitMain

Next ==
    \/ MainResolveProject
    \/ ResolveProbe
    \/ MainPrepareUpload
    \/ CreateVersionBuild
    \/ CreateVersionOpen
    \/ CreateVersionPost

Spec == Init /\ [][Next]_vars

(***************************************************************************)
(* Properties.                                                             *)
(***************************************************************************)
Posts == {i \in DOMAIN wire : wire[i].method = "POST"}
Ended == pc \in {"returned", "raised", "exited"}
ProjectGet(token) == Request("GET", "/v2/project/", token, remote.project[token].status)
VersionGet(token) == Request("GET", "/v2/version/", token, remote.version[token].status)
ProjectRef(token, dt) == [project_id |-> remote.project[token].id, dependency_type |-> dt]
VersionRef(token, dt) == [version_id |-> remote.version[token].id, dependency_type |-> dt]

\* C1: when the server answers the project lookup for the token with a
\* project, _resolve_dependency returns exactly {project_id: that project's
\* id, dependency_type: the kind}, whatever the server would answer to the
\* version lookup for the same token.
C1_ProjectWins ==
    (Ended /\ get_project(dep).exc = "")
        => /\ pc = "returned"
           /\ ret = <<ProjectRef(dep, dep_type)>>

\* C1 witness: a call has returned for a token that is both a project and a
\* version on the server.
C1_Witness ==
    /\ pc = "returned"
    /\ get_project(dep).exc = ""
    /\ get_version(dep).exc = ""
    /\ ret = <<ProjectRef(dep, dep_type)>>

\* C2: when both lookups for the token fail, whatever the failure (404,
\* 401, 429, 5xx, no response, a body that is no JSON), _resolve_dependency raises nothing and
\* returns exactly {file_name: the token, dependency_type: the kind}.
C2_FileNameFallback ==
    (Ended /\ get_project(dep).exc # "" /\ get_version(dep).exc # "")
        => /\ pc = "returned"
           /\ raised = ""
           /\ ret = <<[file_name |-> dep, dependency_type |-> dep_type]>>

\* C2 witness: the call has returned the file name after a rate-limited
\* project lookup and a version lookup that got no response.
C2_Witness ==
    /\ pc = "returned"
    /\ remote.project[dep].status = 429
    /\ remote.version[dep].status = 0
    /\ ret = <<[file_name |-> dep, dependency_type |-> dep_type]>>

\* C8: the project lookup is sent first; the version lookup is sent only
\* after it, and if and only if the project lookup failed; no more than
\* these two lookups are sent; and when the project lookup fails and the
\* version lookup succeeds the result is {version_id: the version's id,
\* dependency_type: the kind}.
C8_ProbeOrder ==
    /\ wire \in {<< >>, <<ProjectGet(dep)>>, <<ProjectGet(dep), VersionGet(dep)>>}
    /\ Len(wire) = 2 => get_project(dep).exc # ""
    /\ Ended => (Len(wire) = 2 <=> get_project(dep).exc # "")
    /\ (Ended /\ get_project(dep).exc # "" /\ get_version(dep).exc = "")
           => ret = <<VersionRef(dep, dep_type)>>

\* C8 witness: the call has returned a version reference after a failed
\* project lookup followed by the version lookup.
C8_Witness ==
    /\ pc = "returned"
    /\ wire = <<ProjectGet(dep), VersionGet(dep)>>
    /\ remote.project[dep].status = 404
    /\ ret = <<VersionRef(dep, dep_type)>>

\* C3: the JSON metadata of create_version has no 'dependencies' key when
\* the deps list is empty, and has 'dependencies' equal to the list given
\* (same elements, same order) when it is not.
C3_DependenciesKey ==
    data # << >>
        => IF deps = << >>
           THEN "dependencies" \notin DOMAIN data
           ELSE "dependencies" \in DOMAIN data /\ data.dependencies = deps

\* C3 witness: a call with an empty deps list has sent its POST with
\* metadata that has no 'dependencies' key.
C3_Witness ==
    /\ Posts # {}
    /\ deps = << >>
    /\ data # << >>
    /\ "dependencies" \notin DOMAIN data

\* C4: for a non-empty file_paths list the JSON metadata has primary_file
\* equal to the first path and file_parts equal to the whole list, in order.
C4_PrimaryFile ==
    (file_paths # << >> /\ pc # "cv_build")
        => /\ data # << >>
           /\ data.primary_file = file_paths[1]
           /\ data.file_parts = file_paths

\* C4 witness: a call with two different paths has sent its POST.
C4_Witness ==
    /\ Posts # {}
    /\ Len(file_paths) = 2
    /\ file_paths[1] # file_paths[2]
    /\ data.primary_file = file_paths[1]

Unopenable == {i \in DOMAIN file_paths : file_paths[i] \notin openable}

\* C5: when some path of file_paths cannot be opened, at whatever position,
\* create_version sends no POST and ends by raising the error of open().
C5_NoPostOnOpenFailure ==
    Unopenable # {}
        => /\ Posts = {}
           /\ Ended => (pc = "raised" /\ raised = "OSError")

\* C5 witness: a call has raised OSError with its first path opened and
\* its second one not openable, and nothing was sent.
C5_Witness ==
    /\ pc = "raised"
    /\ raised = "OSError"
    /\ Unopenable = {2}
    /\ Len(handles) = 1
    /\ wire = << >>

FileParts == {n \in DOMAIN files : files[n].kind = "file"}

\* C7: the body of the POST holds one part named 'data' with the JSON
\* metadata and one binary part per entry of file_paths, named by the path,
\* also when a path is 'data' or is listed twice.
C7_MultipartBody ==
    Posts # {}
        => /\ "data" \in DOMAIN files
           /\ files["data"].kind = "json"
           /\ \A i \in DOMAIN file_paths : file_paths[i] \in FileParts
           /\ Cardinality(FileParts) = Len(file_paths)

\* C9: when create_version has returned or raised, every file object it
\* opened is closed.
C9_HandlesClosed ==
    pc \in {"returned", "raised"} => \A i \in DOMAIN handles : handles[i].closed

\* C6: with --dryrun no upload POST is ever sent and create_version is not
\* entered; a run whose request is complete (the target project was found
\* and the changelog was read) exits with status 0.
C6_DryRun ==
    args.dryrun
        => /\ Posts = {}
           /\ pc \notin {"cv_build", "cv_open", "cv_post"}
           /\ (pc = "exited" /\ get_project(args.project).exc = ""
                   /\ args.changelog_path \in openable)
                  => (exitCode = <<0>> /\ raised = "")

\* C6 witness: a dry run with two dependency flags has exited with status 0
\* after resolving both.
C6_Witness ==
    /\ args.dryrun
    /\ pc = "exited"
    /\ exitCode = <<0>>
    /\ Len(AllDeps(args)) = 2
    /\ Len(dependencies) = 2
    /\ Posts = {}

TargetFound == get_project(args.project).exc = ""

\* C10: the upload POST is sent at most once, as the last request, and only
\* after the target project lookup has succeeded and every dependency flag
\* has been resolved; when the target project lookup fails the process
\* exits with status 1 having sent nothing but that lookup.
C10_UploadLast ==
    /\ Cardinality(Posts) <= 1
    /\ Posts # {}
           => /\ Posts = {Len(wire)}
              /\ wire[1] = ProjectGet(args.project)
              /\ TargetFound
              /\ project_id = remote.project[args.project].id
              /\ Len(dependencies) = Len(AllDeps(args))
              /\ \A k \in DOMAIN dependencies :
                     \E i \in 2..(Len(wire) - 1) : wire[i] = ProjectGet(AllDeps(args)[k].token)
    /\ (wire # << >> /\ ~TargetFound)
           => /\ wire = <<ProjectGet(args.project)>>
              /\ pc = "exited"
              /\ exitCode = <<1>>
              /\ dependencies = << >>

\* C10 witness: a run with two dependency flags has sent its POST.
C10_Witness ==
    /\ Posts # {}
    /\ Len(AllDeps(args)) = 2
    /\ Len(dependencies) = 2
    /\ pc = "exited"
====
